---- MODULE Spec2Model ----
(***************************************************************************)
(* Dining philosophers of Week13/ChandyMisra/.../misra.py.                 *)
(*                                                                         *)
(* One thread per Philosopher plus the main thread.  Every statement that  *)
(* reads or writes shared state (a Fork's lock, owner, picked_up; the      *)
(* token Event) is one step, because CPython may switch threads between    *)
(* any two statements.  A thread's own fields (spaghetti, eating) are      *)
(* written only by that thread.                                            *)
(***************************************************************************)
EXTENDS Integers, FiniteSets, Sequences, TLC

\* ---------------------------------------------------------------- bounds
\* main() fixes n = 5 and m = 7; the classes take them as parameters.  The
\* model explores every ring size 2..MaxN and every budget -MaxNeg..MaxM.
MaxN == 3
MaxM == 2
MaxNeg == 1
\* n * m, the number of meals of a whole run, is at most MaxMeals
MaxMeals == 6
\* number of out-of-protocol put_down calls explored by SpecMisuse
MaxCalls == 1
\* SpecMisuse explores the runs of at most MaxMisuseMeals meals
MaxMisuseMeals == 3
\* FairSpec explores the runs with 2 * n + m <= MaxFairSize
MaxFairSize == 7

NoOwner == 0 - 1

VARIABLES
    n,          \* main: n, the number of forks and philosophers
    m,          \* main: m, the budget handed to every Philosopher
    token,      \* threading.Event: its internal flag
    tokenSets,  \* history: number of token.set() calls made so far
    mainpc,     \* position of the main thread
    mainidx,    \* loop index of main's start loop / join loop
    pc,         \* position of each Philosopher thread
    spaghetti,  \* Philosopher.spaghetti
    eating,     \* Philosopher.eating
    eats,       \* history: number of False -> True changes of eating
    locked,     \* Fork.lock: whether the threading.Lock is locked
    picked_up,  \* Fork.picked_up
    owner,      \* Fork.owner
    cpc,        \* position of an out-of-protocol caller of Fork.put_down
    cfork,      \* the fork that caller passed, NoOwner when none
    calls       \* history: number of out-of-protocol calls started

vars == <<n, m, token, tokenSets, mainpc, mainidx, pc, spaghetti, eating, eats,
          locked, picked_up, owner, cpc, cfork, calls>>

mainVars == <<token, tokenSets, mainpc, mainidx>>
philVars == <<spaghetti, eating, eats>>
forkVars == <<locked, picked_up, owner>>
callerVars == <<cpc, cfork, calls>>
setup == <<n, m>>

Ids == 0..(n - 1)
Budgets == (0 - MaxNeg)..MaxM

\* main: Philosopher(i, forks[i], forks[(i + 1) % n], m, token)
left_fork(i) == i
right_fork_no_wrap(i) == i + 1

right_fork(i) == (i + 1) % n

Init ==
    /\ n \in 2..MaxN
    /\ m \in Budgets
    /\ n * m <= MaxMeals
    /\ token = FALSE
    /\ tokenSets = 0
    /\ mainpc = "set"
    /\ mainidx = 0
    /\ pc = [i \in 0..(n - 1) |-> "new"]
    /\ spaghetti = [i \in 0..(n - 1) |-> m]
    /\ eating = [i \in 0..(n - 1) |-> FALSE]
    /\ eats = [i \in 0..(n - 1) |-> 0]
    /\ locked = [f \in 0..(n - 1) |-> FALSE]
    /\ picked_up = [f \in 0..(n - 1) |-> FALSE]
    /\ owner = [f \in 0..(n - 1) |-> NoOwner]
    /\ cpc = "idle"
    /\ cfork = NoOwner
    /\ calls = 0

\* thread p moves from statement a to statement b
Goto(p, a, b) == pc[p] = a /\ pc' = [pc EXCEPT ![p] = b]

\* ------------------------------------------------------------------ Fork
\* self.lock.acquire(): blocks while the lock is locked, then locks it
lock_acquire_nonblocking(f) ==
    /\ locked' = [locked EXCEPT ![f] = TRUE]
    /\ UNCHANGED <<picked_up, owner>>

lock_acquire(f) ==
    /\ ~locked[f]
    /\ locked' = [locked EXCEPT ![f] = TRUE]
    /\ UNCHANGED <<picked_up, owner>>

\* self.owner = owner
set_owner(f, o) ==
    /\ owner' = [owner EXCEPT ![f] = o]
    /\ UNCHANGED <<locked, picked_up>>

\* self.picked_up = True
set_picked_up(f) ==
    /\ picked_up' = [picked_up EXCEPT ![f] = TRUE]
    /\ UNCHANGED <<locked, owner>>

\* self.lock.release(): unlocks a locked lock whichever thread locked it;
\* on an unlocked lock it raises RuntimeError and changes nothing
lock_release(f) ==
    /\ locked' = [locked EXCEPT ![f] = FALSE]
    /\ UNCHANGED <<picked_up, owner>>

\* self.picked_up = False
clear_picked_up(f) ==
    /\ picked_up' = [picked_up EXCEPT ![f] = FALSE]
    /\ UNCHANGED <<locked, owner>>

clear_owner_skipped(f) == UNCHANGED <<locked, picked_up, owner>>

\* self.owner = -1
clear_owner(f) ==
    /\ owner' = [owner EXCEPT ![f] = NoOwner]
    /\ UNCHANGED <<locked, picked_up>>

\* ----------------------------------------------------------- Philosopher
\* while self.spaghetti > 0
loop_test_nonzero(s) == s # 0

loop_test_off_by_one(s) == s > 1

loop_test(s) == s > 0

Run(p) ==
    /\ pc[p] = "run"
    /\ pc' = [pc EXCEPT ![p] = IF loop_test(spaghetti[p]) THEN "think" ELSE "done"]
    /\ UNCHANGED <<setup, mainVars, philVars, forkVars, callerVars>>

\* think(): time.sleep(...)
Think(p) ==
    /\ Goto(p, "think", "wait")
    /\ UNCHANGED <<setup, mainVars, philVars, forkVars, callerVars>>

\* request_forks(): self.token.wait() blocks until the Event's flag is set
TokenWait(p) ==
    /\ token
    /\ Goto(p, "wait", "l_acq")
    /\ UNCHANGED <<setup, mainVars, philVars, forkVars, callerVars>>

\* request_forks() picking the right fork up first
LeftAcquire_takes_right(p) ==
    /\ Goto(p, "l_acq", "l_own")
    /\ lock_acquire(right_fork(p))
    /\ UNCHANGED <<setup, mainVars, philVars, callerVars>>

\* request_forks(): self.left_fork.pick_up(self.index), statement by statement
LeftAcquire(p) ==
    /\ Goto(p, "l_acq", "l_own")
    /\ lock_acquire(left_fork(p))
    /\ UNCHANGED <<setup, mainVars, philVars, callerVars>>

LeftOwner(p) ==
    /\ Goto(p, "l_own", "l_flag")
    /\ set_owner(left_fork(p), p)
    /\ UNCHANGED <<setup, mainVars, philVars, callerVars>>

LeftFlag(p) ==
    /\ Goto(p, "l_flag", "l_ret")
    /\ set_picked_up(left_fork(p))
    /\ UNCHANGED <<setup, mainVars, philVars, callerVars>>

\* return self; Fork.__enter__ returns the fork and changes nothing
LeftReturn(p) ==
    /\ Goto(p, "l_ret", "r_acq")
    /\ UNCHANGED <<setup, mainVars, philVars, forkVars, callerVars>>

\* request_forks(): self.right_fork.pick_up(self.index)
RightAcquire(p) ==
    /\ Goto(p, "r_acq", "r_own")
    /\ lock_acquire(right_fork(p))
    /\ UNCHANGED <<setup, mainVars, philVars, callerVars>>

RightOwner(p) ==
    /\ Goto(p, "r_own", "r_flag")
    /\ set_owner(right_fork(p), p)
    /\ UNCHANGED <<setup, mainVars, philVars, callerVars>>

RightFlag(p) ==
    /\ Goto(p, "r_flag", "r_ret")
    /\ set_picked_up(right_fork(p))
    /\ UNCHANGED <<setup, mainVars, philVars, callerVars>>

\* return self; both with-blocks end, Fork.__exit__ does nothing
RightReturn(p) ==
    /\ Goto(p, "r_ret", "dec")
    /\ UNCHANGED <<setup, mainVars, philVars, forkVars, callerVars>>

\* eat(): self.spaghetti -= 1
decrement_by_two(s) == s - 2

decrement(s) == s - 1

EatDecrement(p) ==
    /\ Goto(p, "dec", "eat_on")
    /\ spaghetti' = [spaghetti EXCEPT ![p] = decrement(spaghetti[p])]
    /\ UNCHANGED <<setup, mainVars, eating, eats, forkVars, callerVars>>

\* eat(): self.eating = True
EatOn(p) ==
    /\ Goto(p, "eat_on", "eat_off")
    /\ eating' = [eating EXCEPT ![p] = TRUE]
    /\ eats' = [eats EXCEPT ![p] = IF eating[p] THEN @ ELSE @ + 1]
    /\ UNCHANGED <<setup, mainVars, spaghetti, forkVars, callerVars>>

\* eat(): time.sleep(...) ends; self.eating = False
EatOff(p) ==
    /\ Goto(p, "eat_off", "pl_rel")
    /\ eating' = [eating EXCEPT ![p] = FALSE]
    /\ UNCHANGED <<setup, mainVars, spaghetti, eats, forkVars, callerVars>>

\* put_down_forks() with the two calls swapped: the right fork's lock goes first
PutLeftRelease_right_first(p) ==
    /\ pc[p] = "pl_rel"
    /\ IF locked[right_fork(p)]
       THEN lock_release(right_fork(p)) /\ pc' = [pc EXCEPT ![p] = "pl_flag"]
       ELSE UNCHANGED forkVars /\ pc' = [pc EXCEPT ![p] = "raised"]
    /\ UNCHANGED <<setup, mainVars, philVars, callerVars>>

\* put_down_forks(): self.left_fork.put_down(), statement by statement.
\* lock.release() on an unlocked lock raises RuntimeError, which ends the thread.
PutLeftRelease(p) ==
    /\ pc[p] = "pl_rel"
    /\ IF locked[left_fork(p)]
       THEN lock_release(left_fork(p)) /\ pc' = [pc EXCEPT ![p] = "pl_flag"]
       ELSE UNCHANGED forkVars /\ pc' = [pc EXCEPT ![p] = "raised"]
    /\ UNCHANGED <<setup, mainVars, philVars, callerVars>>

PutLeftFlag(p) ==
    /\ Goto(p, "pl_flag", "pl_own")
    /\ clear_picked_up(left_fork(p))
    /\ UNCHANGED <<setup, mainVars, philVars, callerVars>>

PutLeftOwner(p) ==
    /\ Goto(p, "pl_own", "pr_rel")
    /\ clear_owner(left_fork(p))
    /\ UNCHANGED <<setup, mainVars, philVars, callerVars>>

\* put_down() that forgets self.lock.release()
PutRightRelease_keeps_lock(p) ==
    /\ Goto(p, "pr_rel", "pr_flag")
    /\ UNCHANGED <<setup, mainVars, philVars, forkVars, callerVars>>

\* put_down_forks(): self.right_fork.put_down()
PutRightRelease(p) ==
    /\ pc[p] = "pr_rel"
    /\ IF locked[right_fork(p)]
       THEN lock_release(right_fork(p)) /\ pc' = [pc EXCEPT ![p] = "pr_flag"]
       ELSE UNCHANGED forkVars /\ pc' = [pc EXCEPT ![p] = "raised"]
    /\ UNCHANGED <<setup, mainVars, philVars, callerVars>>

PutRightFlag(p) ==
    /\ Goto(p, "pr_flag", "pr_own")
    /\ clear_picked_up(right_fork(p))
    /\ UNCHANGED <<setup, mainVars, philVars, callerVars>>

\* last statement of the loop body: back to the while test
PutRightOwner(p) ==
    /\ Goto(p, "pr_own", "run")
    /\ clear_owner(right_fork(p))
    /\ UNCHANGED <<setup, mainVars, philVars, callerVars>>

\* ------------------------------------------------------------------ main
\* philosophers[0].token.set(): every Philosopher shares the one Event
token_set_skipped == UNCHANGED <<token, tokenSets>>

token_set == token' = TRUE /\ tokenSets' = tokenSets + 1

MainSetToken ==
    /\ mainpc = "set"
    /\ token_set
    /\ mainpc' = "start"
    /\ UNCHANGED <<setup, mainidx, pc, philVars, forkVars, callerVars>>

\* for philosopher in philosophers: philosopher.start()
MainStart ==
    /\ mainpc = "start"
    /\ pc' = [pc EXCEPT ![mainidx] = "run"]
    /\ IF mainidx = n - 1
       THEN mainpc' = "join" /\ mainidx' = 0
       ELSE mainpc' = mainpc /\ mainidx' = mainidx + 1
    /\ UNCHANGED <<setup, token, tokenSets, philVars, forkVars, callerVars>>

\* a thread has ended: run() returned or an exception left it
Terminated(p) == pc[p] \in {"done", "raised"}

\* for philosopher in philosophers: philosopher.join()
MainJoin ==
    /\ mainpc = "join"
    /\ Terminated(mainidx)
    /\ IF mainidx = n - 1
       THEN mainpc' = "done" /\ mainidx' = mainidx
       ELSE mainpc' = mainpc /\ mainidx' = mainidx + 1
    /\ UNCHANGED <<setup, token, tokenSets, pc, philVars, forkVars, callerVars>>

Next ==
    \/ MainSetToken
    \/ MainStart
    \/ MainJoin
    \/ \E p \in Ids : Run(p)
    \/ \E p \in Ids : Think(p)
    \/ \E p \in Ids : TokenWait(p)
    \/ \E p \in Ids : LeftAcquire(p)
    \/ \E p \in Ids : LeftOwner(p)
    \/ \E p \in Ids : LeftFlag(p)
    \/ \E p \in Ids : LeftReturn(p)
    \/ \E p \in Ids : RightAcquire(p)
    \/ \E p \in Ids : RightOwner(p)
    \/ \E p \in Ids : RightFlag(p)
    \/ \E p \in Ids : RightReturn(p)
    \/ \E p \in Ids : EatDecrement(p)
    \/ \E p \in Ids : EatOn(p)
    \/ \E p \in Ids : EatOff(p)
    \/ \E p \in Ids : PutLeftRelease(p)
    \/ \E p \in Ids : PutLeftFlag(p)
    \/ \E p \in Ids : PutLeftOwner(p)
    \/ \E p \in Ids : PutRightRelease(p)
    \/ \E p \in Ids : PutRightFlag(p)
    \/ \E p \in Ids : PutRightOwner(p)

Spec == Init /\ [][Next]_vars

\* --------------------------------------------- put_down outside the protocol
\* Some thread that holds no fork calls forks[f].put_down(): the same three
\* statements of Fork.put_down, run by a caller that never picked f up.
CallPutDown(f) ==
    /\ cpc = "idle"
    /\ calls < MaxCalls
    /\ cpc' = "release"
    /\ cfork' = f
    /\ calls' = calls + 1
    /\ UNCHANGED <<setup, mainVars, pc, philVars, forkVars>>

CallerRelease ==
    /\ cpc = "release"
    /\ IF locked[cfork]
       THEN lock_release(cfork) /\ cpc' = "flag"
       ELSE UNCHANGED forkVars /\ cpc' = "raised"
    /\ UNCHANGED <<setup, mainVars, pc, philVars, cfork, calls>>

CallerFlag ==
    /\ cpc = "flag"
    /\ clear_picked_up(cfork)
    /\ cpc' = "owner"
    /\ UNCHANGED <<setup, mainVars, pc, philVars, cfork, calls>>

CallerOwner ==
    /\ cpc = "owner"
    /\ clear_owner(cfork)
    /\ cpc' = "returned"
    /\ UNCHANGED <<setup, mainVars, pc, philVars, cfork, calls>>

NextMisuse ==
    \/ Next
    \/ \E f \in Ids : CallPutDown(f)
    \/ CallerRelease
    \/ CallerFlag
    \/ CallerOwner

InitMisuse == Init /\ n * m <= MaxMisuseMeals

SpecMisuse == InitMisuse /\ [][NextMisuse]_vars

\* ------------------------------------------------------- derived state
\* p has returned from left_fork.lock.acquire() and has not yet reached
\* left_fork.lock.release(): request_forks line 59 .. put_down_forks line 71
HoldsLeft(p) ==
    pc[p] \in {"l_own", "l_flag", "l_ret", "r_acq", "r_own", "r_flag", "r_ret",
               "dec", "eat_on", "eat_off", "pl_rel"}

\* the same for right_fork: request_forks line 60 .. put_down_forks line 72
HoldsRight(p) ==
    pc[p] \in {"r_own", "r_flag", "r_ret", "dec", "eat_on", "eat_off",
               "pl_rel", "pl_flag", "pl_own", "pr_rel"}

\* the philosophers holding fork f
Holders(f) ==
    {p \in Ids : \/ left_fork(p) = f /\ HoldsLeft(p)
                 \/ right_fork(p) = f /\ HoldsRight(p)}

\* the state Fork.__init__ builds
FreeState(f) == ~locked[f] /\ ~picked_up[f] /\ owner[f] = NoOwner

\* every philosopher holds its left fork and is at right_fork.lock.acquire()
CircularWait == \A p \in Ids : pc[p] = "r_acq"

\* ----------------------------------------------------------------- claims

\* C1: in every reachable state each fork is held (lock acquired by pick_up,
\* not yet released by put_down) by at most one philosopher.
C1_MutualExclusion == \A f \in Ids : Cardinality(Holders(f)) <= 1

\* a fork is held while its other philosopher waits at lock.acquire() for it
C1_Witness ==
    \E p \in Ids : \E q \in Ids \ {p} :
        /\ HoldsRight(p)
        /\ left_fork(q) = right_fork(p)
        /\ pc[q] = "l_acq"

\* C2: whenever p.eating is true, both of p's forks have owner = p.index and
\* picked_up = True.
C2_EatingOwnsBoth ==
    \A p \in Ids :
        eating[p] =>
            /\ owner[left_fork(p)] = p /\ picked_up[left_fork(p)]
            /\ owner[right_fork(p)] = p /\ picked_up[right_fork(p)]

\* C3: at every instant, for every fork, picked_up is true exactly when owner
\* is a philosopher's index; a locked fork never shows picked_up = False with
\* owner = -1.
C3_PickedUpIffOwner ==
    \A f \in Ids :
        /\ picked_up[f] <=> owner[f] # NoOwner
        /\ locked[f] => ~(~picked_up[f] /\ owner[f] = NoOwner)

\* C4: from the state where every philosopher holds its left fork and waits
\* for its right fork, no thread can take a step: nothing is enabled.
C4_CircularWaitIsStuck == CircularWait => ~ENABLED Next

\* the circular wait is reached, with a budget of at least 1
C4_Witness == CircularWait /\ m >= 1 /\ \A f \in Ids : locked[f]

\* C5: for a budget m >= 0 the number of False -> True changes of a
\* philosopher's eating flag never exceeds m, and is exactly m once its
\* thread has terminated.
C5_EatCount ==
    m >= 0 =>
        \A p \in Ids :
            /\ eats[p] <= m
            /\ Terminated(p) => eats[p] = m

\* a philosopher has terminated after eating MaxM times
C5_Witness == \E p \in Ids : pc[p] = "done" /\ m = MaxM /\ eats[p] = MaxM

\* C6: for a budget m >= 0 a terminated philosopher has spaghetti = 0, and
\* main gets past its joins only when every philosopher's spaghetti is 0.
C6_TerminatesAtZero ==
    m >= 0 =>
        /\ \A p \in Ids : Terminated(p) => spaghetti[p] = 0
        /\ mainpc = "done" => \A p \in Ids : spaghetti[p] = 0

\* main has joined every philosopher of a run with a positive budget
C6_Witness == mainpc = "done" /\ m >= 1

\* C7: put_down on a fork the caller does not hold never ends as a normal
\* release: once such a call has returned, the fork is not left looking free
\* while a philosopher still holds it.
C7_MisuseNotSilent ==
    cpc = "returned" => ~(FreeState(cfork) /\ Holders(cfork) # {})

\* C8: in the state where pick_up returns to philosopher p, the fork has
\* owner = p and picked_up = True.
C8_PickUpPostcondition ==
    \A p \in Ids :
        /\ pc[p] = "l_ret" => owner[left_fork(p)] = p /\ picked_up[left_fork(p)]
        /\ pc[p] = "r_ret" => owner[right_fork(p)] = p /\ picked_up[right_fork(p)]

\* C9: the token is set exactly once, before any philosopher is started, and
\* stays set; no philosopher is past token.wait() or waiting in it while the
\* token is unset.
C9_GateSetOnceBeforeStart ==
    /\ tokenSets = (IF mainpc = "set" THEN 0 ELSE 1)
    /\ token <=> mainpc # "set"
    /\ \A p \in Ids : pc[p] # "new" => token

\* a philosopher has passed token.wait() and holds a fork
C9_Witness == \E p \in Ids : HoldsLeft(p) /\ token /\ tokenSets = 1

\* C10: with a budget m <= 0 a philosopher goes from the loop test straight
\* to termination: it never thinks, waits, eats or touches a fork, and its
\* spaghetti stays m.
C10_NonPositiveBudget ==
    m <= 0 =>
        /\ \A p \in Ids :
            /\ pc[p] \in {"new", "run", "done"}
            /\ spaghetti[p] = m
            /\ ~eating[p]
            /\ eats[p] = 0
        /\ \A f \in Ids : FreeState(f)

\* every philosopher of a run with a negative budget has terminated
C10_Witness == m < 0 /\ \A p \in Ids : pc[p] = "done"

\* p holds the locks of both its forks
HoldsBoth(p) ==
    /\ HoldsLeft(p) /\ locked[left_fork(p)]
    /\ HoldsRight(p) /\ locked[right_fork(p)]

\* C11: for a budget m >= 0, spaghetti stays in 0..m in every reachable state,
\* and every step that changes a philosopher's spaghetti is a step of that
\* philosopher, decrements it by exactly 1, and is taken while the
\* philosopher holds both its forks.
C11_SpaghettiRange ==
    /\ [](m >= 0 => \A p \in Ids : spaghetti[p] \in 0..m)
    /\ [][\A p \in Ids :
            spaghetti'[p] # spaghetti[p] =>
                /\ spaghetti'[p] = spaghetti[p] - 1
                /\ pc'[p] # pc[p]
                /\ HoldsBoth(p)]_vars

\* a philosopher has just decremented its spaghetti, holding both forks
C11_Witness ==
    \E p \in Ids : pc[p] = "eat_on" /\ spaghetti[p] = m - 1 /\ HoldsBoth(p)

\* p is in put_down_forks()
Releasing(p) ==
    pc[p] \in {"pl_rel", "pl_flag", "pl_own", "pr_rel", "pr_flag", "pr_own"}

\* C12 as claimed: the right fork is released before the left fork, so no
\* philosopher in its releasing phase has released its left fork while it
\* still holds its right fork.
C12_RightBeforeLeft ==
    \A p \in Ids : ~(Releasing(p) /\ ~HoldsLeft(p) /\ HoldsRight(p))

\* C12 as amended: the left fork is released before the right fork; until a
\* releasing philosopher reaches the release of its right fork, which follows
\* the whole put_down of its left fork, the right fork's lock stays locked.
C12_LeftBeforeRight ==
    \A p \in Ids :
        pc[p] \in {"pl_rel", "pl_flag", "pl_own", "pr_rel"} => locked[right_fork(p)]

\* a releasing philosopher's left fork is free while its right fork is locked
C12_Witness ==
    \E p \in Ids :
        pc[p] = "pr_rel" /\ ~locked[left_fork(p)] /\ locked[right_fork(p)]

\* p is inside self.right_fork.pick_up(self.index) of request_forks()
RequestingRight(p) == pc[p] \in {"r_acq", "r_own", "r_flag", "r_ret"}

\* C13: a philosopher that attempts to acquire its right fork, or has come to
\* hold it, during request_forks already holds its left fork: the left fork's
\* lock is locked, and locked by this philosopher.
C13_LeftBeforeRight ==
    \A p \in Ids :
        RequestingRight(p) => locked[left_fork(p)] /\ Holders(left_fork(p)) = {p}

\* a philosopher has taken its right fork's lock after its left fork's
C13_Witness ==
    \E p \in Ids :
        pc[p] = "r_own" /\ locked[left_fork(p)] /\ locked[right_fork(p)]

\* C14: every step that changes a fork's picked_up or owner is taken by a
\* philosopher that holds that fork's lock when it takes the step.
C14_WritesUnderLock ==
    [][\A f \in Ids :
          (picked_up'[f] # picked_up[f] \/ owner'[f] # owner[f]) =>
              \E p \in Holders(f) : pc'[p] # pc[p]]_vars

\* p is in think() or its thread has ended
Idle(p) == pc[p] = "think" \/ Terminated(p)

\* C15: a philosopher that is thinking or has terminated holds no fork lock
\* (if one of its forks is locked, its other philosopher holds it), and a
\* terminated philosopher takes no further step.
C15_IdleHoldsNothing ==
    /\ [](\A p \in Ids :
            Idle(p) =>
                \A f \in {left_fork(p), right_fork(p)} :
                    locked[f] => Holders(f) \ {p} # {})
    /\ [][\A p \in Ids : Terminated(p) => pc'[p] = pc[p]]_vars

\* a philosopher thinks again after a meal while its neighbour holds a fork,
\* and another philosopher has terminated
C15_Witness ==
    \E p \in Ids : \E q \in Ids \ {p} :
        /\ pc[p] = "think" /\ eats[p] >= 1
        /\ locked[left_fork(p)]
        /\ Terminated(q)

\* the philosophers constructed with fork f as left_fork or right_fork
Users(f) == {p \in Ids : left_fork(p) = f \/ right_fork(p) = f}

\* C16: in every reachable state philosopher i is wired to left fork i and
\* right fork (i + 1) mod n, which is the left fork of philosopher
\* (i + 1) mod n, and every fork is referenced by exactly two philosophers.
C16_RingWiring ==
    /\ \A i \in Ids :
        /\ left_fork(i) = i
        /\ right_fork(i) \in Ids
        /\ right_fork(i) = left_fork((i + 1) % n)
    /\ \A f \in Ids : Cardinality(Users(f)) = 2

\* in the largest ring a philosopher eats while its successor waits for the
\* fork they share
C16_Witness ==
    \E p \in Ids :
        /\ n = MaxN
        /\ eating[p]
        /\ pc[(p + 1) % n] = "l_acq"
        /\ locked[right_fork(p)]

\* the philosophers whose eating flag is set
Eaters == {p \in Ids : eating[p]}

\* C17: no two ring-adjacent philosophers, i and (i + 1) mod n, have eating
\* set at the same time, so at most floor(n / 2) philosophers eat at once.
C17_NeighboursNeverEatTogether ==
    /\ \A i \in Ids : ~(eating[i] /\ eating[(i + 1) % n])
    /\ Cardinality(Eaters) <= n \div 2

\* a philosopher eats while its predecessor waits for the fork they share
C17_Witness ==
    \E p \in Ids : \E q \in Ids \ {p} :
        /\ eating[p]
        /\ right_fork(q) = left_fork(p)
        /\ pc[q] = "r_acq"

\* ------------------------------------------------------------- fairness
\* The interpreter keeps running some runnable thread: while a step of any
\* thread is possible, a step is eventually taken.  This is implied by weak
\* fairness of every single thread's steps.
\* The fair runs explored are those of size 2 * n + m <= MaxFairSize.
FairInit == Init /\ 2 * n + m <= MaxFairSize

FairSpec == FairInit /\ [][Next]_vars /\ WF_vars(Next)

\* every Philosopher thread has ended
AllTerminated == \A p \in Ids : Terminated(p)

\* C18: the only way a run can stall is the full circular wait: a state in
\* which no thread can step is the circular wait or has every philosopher
\* terminated, and under fairness every run reaches one of the two.
C18_OnlyStallIsCircularWait ==
    /\ [](~ENABLED Next => CircularWait \/ (AllTerminated /\ mainpc = "done"))
    /\ <>(CircularWait \/ AllTerminated)

\* a full run of the largest ring has ended: every philosopher has eaten and
\* terminated, and main has joined them all
C18_Witness ==
    /\ AllTerminated /\ mainpc = "done"
    /\ n = MaxN
    /\ \A p \in Ids : eats[p] >= 1

\* C19: in every state where all philosophers have terminated, every fork is
\* back in its initial state: lock free, picked_up = False, owner = -1.
C19_ForksFreeAtEnd == AllTerminated => \A f \in Ids : FreeState(f)

\* all philosophers of the largest ring have eaten and terminated
C19_Witness ==
    /\ \A p \in Ids : pc[p] = "done" /\ eats[p] >= 1
    /\ n = MaxN
    /\ \A f \in Ids : FreeState(f)

====
